---- MODULE Spec2Model ----
(***************************************************************************)
(* PakGPT News Engine (src/main.py, src/schemas.py): the HTTP handlers as  *)
(* a state machine over the shared newsitem collection.  One action per    *)
(* route; each action is a whole request, from the payload to the          *)
(* response.  Python dictionaries are functions from field names to        *)
(* values, a missing key is a name outside DOMAIN, an Optional value is a  *)
(* sequence of length 0 (None) or 1.                                       *)
(***************************************************************************)
EXTENDS Integers, Sequences, FiniteSets, TLC

VARIABLES
    store,      \* the newsitem collection, in insertion order
    req,        \* the last request: its route and payload
    fault,      \* the store failure met while serving it: <<>> or <<[at, err]>>
    resp,       \* the response to it
    origin,     \* history: _id of each document ingest inserted -> batch index, language
    completed,  \* history: the languages some ingest call finished the whole batch for
    article,    \* the classifier's input (SpecFact)
    check       \* the classifier's output (SpecFact)

vars == <<store, req, fault, resp, origin, completed, article, check>>

-----------------------------------------------------------------------------
(* Bounds of the model *)

MaxStore == 6

(* Program constants *)

TitleCut == 70
HeadlineCut == 60
BulletCount == 3
FeedLimit == 50
DigestCap == 10
LimitMin == 1
LimitMax == 20
VerifiedRisk == 5
RumourRisk == 65
UnconfirmedRisk == 30
FallbackRisk == 20
DefaultRisk == 0
StatusError == 500

-----------------------------------------------------------------------------
(* Python built-ins the handlers use *)

None == <<>>
Some(x) == <<x>>

Has(d, k) == k \in DOMAIN d

\* d.get(k, default)
Get(d, k, default) == IF Has(d, k) THEN d[k] ELSE default

\* {**a, **b}: the right operand wins
Merge(a, b) == b @@ a

\* s[:n]
Trunc(s, n) == IF Len(s) <= n THEN s ELSE SubSeq(s, 1, n)

\* w in s, for strings
Contains(s, w) ==
    \/ Len(w) = 0
    \/ \E i \in 1..(Len(s) - Len(w) + 1) : SubSeq(s, i, i + Len(w) - 1) = w

StartsWith(s, w) == Len(w) <= Len(s) /\ SubSeq(s, 1, Len(w)) = w

UpperCase == <<"A","B","C","D","E","F","G","H","I","J","K","L","M",
               "N","O","P","Q","R","S","T","U","V","W","X","Y","Z">>
LowerCase == <<"a","b","c","d","e","f","g","h","i","j","k","l","m",
               "n","o","p","q","r","s","t","u","v","w","x","y","z">>

LowerChar(c) ==
    IF \E i \in DOMAIN UpperCase : UpperCase[i] = c
    THEN LowerCase[CHOOSE i \in DOMAIN UpperCase : UpperCase[i] = c]
    ELSE c

RECURSIVE LowerFrom(_, _)
LowerFrom(s, i) ==
    IF i > Len(s) THEN "" ELSE LowerChar(SubSeq(s, i, i)) \o LowerFrom(s, i + 1)

\* s.lower()
Lower(s) == LowerFrom(s, 1)

\* s.replace(a, b) for a single character a
RECURSIVE ReplaceFrom(_, _, _, _)
ReplaceFrom(s, a, b, i) ==
    IF i > Len(s) THEN ""
    ELSE (IF SubSeq(s, i, i) = a THEN b ELSE SubSeq(s, i, i)) \o ReplaceFrom(s, a, b, i + 1)

Replace(s, a, b) == ReplaceFrom(s, a, b, 1)

IsSpace(c) == c \in {" ", "\n", "\t", "\r"}

\* s.strip()
RECURSIVE Strip(_)
Strip(s) ==
    IF Len(s) = 0 THEN s
    ELSE IF IsSpace(SubSeq(s, 1, 1)) THEN Strip(SubSeq(s, 2, Len(s)))
    ELSE IF IsSpace(SubSeq(s, Len(s), Len(s))) THEN Strip(SubSeq(s, 1, Len(s) - 1))
    ELSE s

\* sep.join(parts)
RECURSIVE Join(_, _)
Join(sep, parts) ==
    IF Len(parts) = 0 THEN ""
    ELSE IF Len(parts) = 1 THEN parts[1]
    ELSE parts[1] \o sep \o Join(sep, Tail(parts))

\* xs[:n] for lists
Take(xs, n) == IF Len(xs) <= n THEN xs ELSE SubSeq(xs, 1, n)

\* [x] * n
Repeat(x, n) == [i \in 1..n |-> x]

Range(xs) == {xs[i] : i \in DOMAIN xs}

\* datetime.isoformat()
IsoFormat(t) ==
    ToString(t.year) \o "-" \o ToString(t.month) \o "-" \o ToString(t.day) \o "T" \o t.time

\* str(ObjectId)
Str(oid) == ToString(oid)

-----------------------------------------------------------------------------
(* Request payloads (src/main.py, "Schemas for API payloads") *)

Languages == {"en", "ur"}
Urgencies == {"breaking", "important", "full"}

IngestRequest ==
    [sources : {<<>>, <<"Geo", "BBC">>}, language : Languages]

Feed(city, interests, urgency, language) ==
    [city |-> city, interests |-> interests, urgency |-> urgency, language |-> language]

PersonalizeRequest ==
    { Feed(None, <<>>, "important", "en"),
      Feed(None, <<>>, "full", "ur"),
      Feed(None, <<"politics", "economy">>, "important", "ur"),
      Feed(Some(""), <<"sports", "tech">>, "important", "en"),
      Feed(Some("Lahore"), <<>>, "important", "en"),
      Feed(Some("Lahore"), <<>>, "important", "ur"),
      Feed(Some("Lahore"), <<>>, "breaking", "en"),
      Feed(Some("Lahore"), <<"sports", "tech">>, "important", "en"),
      Feed(Some("Lahore"), <<"sports", "tech">>, "important", "ur"),
      Feed(Some("Lahore"), <<"politics", "economy">>, "important", "en") }

AudioRequest == [text : {"salam", "line one\nline two"}, language : Languages]

\* The limits Spec draws; SpecDigest draws every limit the validation lets through
DigestLimits == {LimitMin, LimitMin + 1, LimitMax}
AllDigestLimits == LimitMin..LimitMax

\* What the store raises when an operation on it fails
Errors == {"Database not available"}

\* The store failing at its at-th operation of the request, or not at all
Faults(n) == {None} \cup {Some([at |-> k, err |-> e]) : k \in 1..n, e \in Errors}

\* datetime.utcnow(): the instant is copied into documents and decides nothing
utcnow == [year |-> 2024, month |-> 11, day |-> 23, time |-> "06:30:00"]

-----------------------------------------------------------------------------
(* 4.1 Summarizer *)

UrduKeyPoint == "aham nuqta: "
UrduSource == "source: "
UrduUnknown == "namaloom"
UrduTime == "waqt: "
UrduImpact == "shehriyon aur karobar par mumkina asraat ke liye nazar rakhein."
UrduTrailer == " aaj ke aham nukaat ka khulasa."
EnglishImpact == "Potential impact on citizens and businesses to be monitored."

ai_clean_and_summarize(art, language) ==
    LET title == IF Has(art, "title") /\ art["title"] # "" THEN art["title"] ELSE "Untitled"
        en == << "Key point: " \o Trunc(title, TitleCut),
                 "Source: " \o Get(art, "source", "unknown"),
                 "Time: " \o Get(art, "published_at", "") >>
        ur == << UrduKeyPoint \o Trunc(title, TitleCut),
                 UrduSource \o (IF Has(art, "source") /\ art["source"] # ""
                                THEN art["source"] ELSE UrduUnknown),
                 UrduTime \o Get(art, "published_at", "None") >>
    IN  [bullets |-> Take(IF language = "ur" THEN ur ELSE en, BulletCount),
         impact |-> IF language = "ur" THEN UrduImpact ELSE EnglishImpact]

-----------------------------------------------------------------------------
(* 4.2 Fact classifier *)

VerifiedWords == {"breaking", "official", "gov"}
RumourWords == {"rumour", "leak", "unconfirmed"}

\* Variant: the Rumour rule tested before the Verified rule
ai_fact_check_rumour_first(art) ==
    LET title == Lower(Get(art, "title", ""))
    IN  IF \E x \in RumourWords : Contains(title, x)
        THEN [fact_status |-> "Rumour", risk_score |-> RumourRisk]
        ELSE IF \E x \in VerifiedWords : Contains(title, x)
        THEN [fact_status |-> "Verified", risk_score |-> VerifiedRisk]
        ELSE [fact_status |-> "Unconfirmed", risk_score |-> UnconfirmedRisk]

ai_fact_check(art) ==
    LET title == Lower(Get(art, "title", ""))
    IN  IF \E x \in VerifiedWords : Contains(title, x)
        THEN [fact_status |-> "Verified", risk_score |-> VerifiedRisk]
        ELSE IF \E x \in RumourWords : Contains(title, x)
        THEN [fact_status |-> "Rumour", risk_score |-> RumourRisk]
        ELSE [fact_status |-> "Unconfirmed", risk_score |-> UnconfirmedRisk]

-----------------------------------------------------------------------------
(* Document store adapter: create_document and get_documents of database.py *)
(* The collection keeps insertion order; a query returns the first `limit` *)
(* matching documents in that order.                                       *)

\* A filter condition: a bare value is an equality test, {"$in": xs} a membership test
Eq(v) == [op |-> "$eq", value |-> v]
In(xs) == [op |-> "$in", value |-> xs]

ListFields == {"interests", "bullets"}

MatchField(d, k, cond) ==
    /\ Has(d, k)
    /\ IF cond.op = "$in"
       THEN IF k \in ListFields
            THEN Range(d[k]) \cap Range(cond.value) # {}
            ELSE d[k] \in Range(cond.value)
       ELSE d[k] = cond.value

Matches(d, query) == \A k \in DOMAIN query : MatchField(d, k, query[k])

get_documents(st, query, limit) ==
    Take(SelectSeq(st, LAMBDA d : Matches(d, query)), limit)

create_document(st, doc) ==
    LET oid == Len(st) + 1
    IN  [store |-> Append(st, Merge(doc, "_id" :> oid)), id |-> Str(oid)]

-----------------------------------------------------------------------------
(* 4.3 Ingestion pipeline *)

sample_articles ==
    << [source |-> "Dawn",
        title |-> "Breaking: Govt announces new economic policy",
        url |-> "https://www.dawn.com/sample1",
        published_at |-> IsoFormat(utcnow),
        city |-> "Islamabad",
        interests |-> <<"economy", "politics">>],
       [source |-> "Geo",
        title |-> "PSL updates: Lahore Qalandars clinch close match",
        url |-> "https://www.geo.tv/sample2",
        published_at |-> IsoFormat(utcnow),
        city |-> "Lahore",
        interests |-> <<"sports">>],
       [source |-> "Express",
        title |-> "Technology jobs rising in Karachi's startup ecosystem",
        url |-> "https://www.express.pk/sample3",
        published_at |-> IsoFormat(utcnow),
        city |-> "Karachi",
        interests |-> <<"tech", "jobs">>] >>

BatchSize == Len(sample_articles)

\* The document of one article: {**art, **summary, **check, language, urgency}
compose_doc(art, language) ==
    Merge(Merge(Merge(art, ai_clean_and_summarize(art, language)), ai_fact_check(art)),
          [language |-> language, urgency |-> "important"])

\* The documents the loop composes, per language, in batch order
batch_docs ==
    [language \in Languages |->
        [i \in 1..Len(sample_articles) |-> compose_doc(sample_articles[i], language)]]

DbError(f) == [status |-> StatusError, detail |-> "DB error: " \o f[1].err]

\* Variant: an article whose url is already stored in this language is skipped
RECURSIVE ingest_loop_dedup(_, _, _, _, _)
ingest_loop_dedup(st, i, language, f, ids) ==
    IF i > Len(sample_articles)
    THEN [store |-> st,
          resp |-> [status |-> 200, body |-> [inserted |-> Len(ids), ids |-> ids]]]
    ELSE IF f # None /\ f[1].at = i
    THEN [store |-> st, resp |-> DbError(f)]
    ELSE IF \E d \in Range(st) : /\ d["url"] = batch_docs[language][i]["url"]
                                 /\ d["language"] = language
    THEN ingest_loop_dedup(st, i + 1, language, f, ids)
    ELSE LET c == create_document(st, batch_docs[language][i])
         IN  ingest_loop_dedup(c.store, i + 1, language, f, Append(ids, c.id))

\* Variant: a failed insert is skipped and the loop goes on
RECURSIVE ingest_loop_skip_failed(_, _, _, _, _)
ingest_loop_skip_failed(st, i, language, f, ids) ==
    IF i > Len(sample_articles)
    THEN [store |-> st,
          resp |-> [status |-> 200, body |-> [inserted |-> Len(ids), ids |-> ids]]]
    ELSE IF f # None /\ f[1].at = i
    THEN ingest_loop_skip_failed(st, i + 1, language, f, ids)
    ELSE LET c == create_document(st, batch_docs[language][i])
         IN  ingest_loop_skip_failed(c.store, i + 1, language, f, Append(ids, c.id))

\* The loop over the batch from its i-th article on, created_ids being ids
RECURSIVE ingest_loop(_, _, _, _, _)
ingest_loop(st, i, language, f, ids) ==
    IF i > Len(sample_articles)
    THEN [store |-> st,
          resp |-> [status |-> 200, body |-> [inserted |-> Len(ids), ids |-> ids]]]
    ELSE IF f # None /\ f[1].at = i
    THEN [store |-> st, resp |-> DbError(f)]
    ELSE LET c == create_document(st, batch_docs[language][i])
         IN  ingest_loop(c.store, i + 1, language, f, Append(ids, c.id))

ingest_news ==
    \E p \in IngestRequest, f \in Faults(BatchSize) :
        /\ Len(store) + BatchSize <= MaxStore
        /\ LET r == ingest_loop(store, 1, p.language, f, <<>>)
               new == (Len(store) + 1)..Len(r.store)
           IN  /\ store' = r.store
               /\ resp' = r.resp
               /\ origin' = [n \in new |-> [art |-> n - Len(store), language |-> p.language]]
                                @@ origin
               /\ completed' = IF r.resp.status = 200
                               THEN completed \cup {p.language} ELSE completed
        /\ req' = [op |-> "ingest", payload |-> p]
        /\ fault' = f
        /\ UNCHANGED <<article, check>>

-----------------------------------------------------------------------------
(* 4.4 Feed assembler *)

\* Variant: interests compared for equality with the requested list, not by "$in"
feed_query_interests_eq(payload) ==
    LET q1 == IF payload.city # None /\ payload.city[1] # ""
              THEN "city" :> Eq(payload.city[1]) ELSE <<>>
        q2 == IF Len(payload.interests) > 0
              THEN Merge(q1, "interests" :> Eq(payload.interests)) ELSE q1
    IN  Merge(q2, [urgency |-> Eq(payload.urgency), language |-> Eq(payload.language)])

feed_query(payload) ==
    LET q0 == <<>>
        q1 == IF payload.city # None /\ payload.city[1] # ""
              THEN Merge(q0, "city" :> Eq(payload.city[1])) ELSE q0
        q2 == IF Len(payload.interests) > 0
              THEN Merge(q1, "interests" :> In(payload.interests)) ELSE q1
        q3 == IF payload.urgency # ""
              THEN Merge(q2, "urgency" :> Eq(payload.urgency)) ELSE q2
        q4 == IF payload.language # ""
              THEN Merge(q3, "language" :> Eq(payload.language)) ELSE q3
    IN  q4

\* Variant: bullets cut to 3 and never padded, as the digest does
fit_bullets_cut_only(bullets) == Take(bullets, BulletCount)

\* "Ensure bullets exactly 3"
fit_bullets(bullets) ==
    IF Len(bullets) > BulletCount THEN SubSeq(bullets, 1, BulletCount)
    ELSE IF Len(bullets) < BulletCount
    THEN bullets \o Repeat("", BulletCount - Len(bullets))
    ELSE bullets

\* Variant: the item rebuilt from a fixed list of fields that leaves url out
normalize_listed_fields(d) ==
    LET id == IF Has(d, "_id") THEN Str(d["_id"]) ELSE "None"
        bullets == fit_bullets(Get(d, "bullets", <<>>))
        listed == {"title", "source", "city", "language", "urgency", "impact",
                   "fact_status", "risk_score", "published_at", "interests"}
    IN  [k \in (DOMAIN d \cap listed) \cup {"id", "bullets"} |->
            IF k = "id" THEN id ELSE IF k = "bullets" THEN bullets ELSE d[k]]

\* One document of the result: id from _id, _id dropped, bullets fitted
normalize(d) ==
    LET id == IF Has(d, "_id") THEN Str(d["_id"]) ELSE "None"
        bullets == fit_bullets(Get(d, "bullets", <<>>))
    IN  [k \in (DOMAIN d \ {"_id"}) \cup {"id", "bullets"} |->
            IF k = "id" THEN id ELSE IF k = "bullets" THEN bullets ELSE d[k]]

feed_response(st, payload, f) ==
    IF f # None THEN DbError(f)
    ELSE LET docs == get_documents(st, feed_query(payload), FeedLimit)
             normalized == [i \in 1..Len(docs) |-> normalize(docs[i])]
         IN  [status |-> 200, body |-> [count |-> Len(normalized), items |-> normalized]]

\* Variant: the normalization written back to the documents the query matched
get_personalized_feed_in_place ==
    \E p \in PersonalizeRequest, f \in Faults(1) :
        /\ resp' = feed_response(store, p, f)
        /\ store' = [i \in 1..Len(store) |->
                        IF f = None /\ Matches(store[i], feed_query(p))
                        THEN normalize(store[i]) ELSE store[i]]
        /\ req' = [op |-> "feed", payload |-> p]
        /\ fault' = f
        /\ UNCHANGED <<origin, completed, article, check>>

get_personalized_feed ==
    \E p \in PersonalizeRequest, f \in Faults(1) :
        /\ resp' = feed_response(store, p, f)
        /\ req' = [op |-> "feed", payload |-> p]
        /\ fault' = f
        /\ UNCHANGED <<store, origin, completed, article, check>>

-----------------------------------------------------------------------------
(* 4.5 Digest composer *)

fallback_titles ==
    << "Fiscal updates and market outlook",
       "Security and regional developments",
       "PSX morning momentum",
       "Monsoon/weather advisory",
       "Tech/startup funding news" >>

FallbackCount == Len(fallback_titles)

\* d.get(k): None when the key is missing
GetOpt(d, k) == IF Has(d, k) THEN Some(d[k]) ELSE None

fallback_docs ==
    [i \in 1..Len(fallback_titles) |->
        [title |-> fallback_titles[i],
         source |-> "PakGPT",
         published_at |-> IsoFormat(utcnow),
         bullets |-> << "Key developments summarized",
                        "Numbers and context simplified",
                        "What to watch today" >>,
         impact |-> "Expect ripple effects for households and businesses.",
         fact_status |-> "Unconfirmed",
         risk_score |-> FallbackRisk]]

\* The store's answer, [] when the query raises
digest_query(st, language, limit, f) ==
    IF f # None THEN <<>>
    ELSE get_documents(st, "language" :> Eq(language), limit)

\* Variant: the fallback used whenever fewer documents than fallback items were found
digest_docs_fill(found) == IF Len(found) < FallbackCount THEN fallback_docs ELSE found

\* "Fallback simulated items if DB empty"
digest_docs(found) == IF Len(found) = 0 THEN fallback_docs ELSE found

digest_item(d) ==
    [title |-> GetOpt(d, "title"),
     bullets |-> Take(Get(d, "bullets", <<>>), BulletCount),
     impact |-> GetOpt(d, "impact"),
     why_it_matters |-> GetOpt(d, "impact"),
     source |-> GetOpt(d, "source"),
     published_at |-> GetOpt(d, "published_at"),
     fact_status |-> Get(d, "fact_status", "Unconfirmed"),
     risk_score |-> Get(d, "risk_score", DefaultRisk)]

\* Variant: the Urdu trailer appended whatever the language
digest_response_trailer_always(docs, language) ==
    LET headlines == Take([i \in 1..Len(docs) |-> GetOpt(docs[i], "title")], DigestCap)
        shown == Take(docs, DigestCap)
    IN  [status |-> 200,
         body |->
            [headlines |-> headlines,
             summary_60s |->
                Join(" ", [i \in 1..Len(headlines) |-> Trunc(headlines[i][1], HeadlineCut)])
                    \o UrduTrailer,
             items |-> [i \in 1..Len(shown) |-> digest_item(shown[i])],
             business_economy |->
                [snapshot |-> "FX, PSX, inflation, fuel updates at a glance."],
             global_affecting_pk |-> << "Oil prices and regional markets",
                                        "US/China moves impacting trade" >>]]

\* The response for the documents docs; a None headline cannot be sliced (TypeError)
digest_response(docs, language) ==
    LET headlines == Take([i \in 1..Len(docs) |-> GetOpt(docs[i], "title")], DigestCap)
        shown == Take(docs, DigestCap)
    IN  IF \E i \in 1..Len(headlines) : headlines[i] = None
        THEN [status |-> StatusError, detail |-> "Internal Server Error"]
        ELSE [status |-> 200,
              body |->
                [headlines |-> headlines,
                 summary_60s |->
                    Join(" ", [i \in 1..Len(headlines) |-> Trunc(headlines[i][1], HeadlineCut)])
                        \o (IF language = "en" THEN "" ELSE UrduTrailer),
                 items |-> [i \in 1..Len(shown) |-> digest_item(shown[i])],
                 business_economy |->
                    [snapshot |-> "FX, PSX, inflation, fuel updates at a glance."],
                 global_affecting_pk |-> << "Oil prices and regional markets",
                                            "US/China moves impacting trade" >>]]

digest_request(limits) ==
    \E language \in Languages, limit \in limits, f \in Faults(1) :
        LET found == digest_query(store, language, limit, f)
        IN  /\ resp' = digest_response(digest_docs(found), language)
            /\ req' = [op |-> "digest", language |-> language, limit |-> limit]
            /\ fault' = f
            /\ UNCHANGED <<store, origin, completed, article, check>>

morning_digest == digest_request(DigestLimits)

-----------------------------------------------------------------------------
(* 4.6 Audio placeholder *)

AudioConstant == "UGFrR1BULWF1ZGlvLXBsYWNlaG9sZGVy"

audio_response(payload) ==
    LET txt == Replace(payload.text, "\n", " ")
        lang == payload.language
        data_url == "data:audio/wav;base64," \o Strip(AudioConstant)
    IN  [status |-> 200,
         body |-> [language |-> lang,
                   audio_url |-> data_url,
                   note |-> "Demo placeholder. Integrate a real TTS provider in production."]]

text_to_audio ==
    \E p \in AudioRequest :
        /\ resp' = audio_response(p)
        /\ req' = [op |-> "audio", payload |-> p]
        /\ fault' = None
        /\ UNCHANGED <<store, origin, completed, article, check>>

-----------------------------------------------------------------------------
(* GET / and GET /test *)

root ==
    /\ resp' = [status |-> 200,
                body |-> [message |-> "PakGPT News Engine backend running"]]
    /\ req' = [op |-> "root"]
    /\ fault' = None
    /\ UNCHANGED <<store, origin, completed, article, check>>

\* db: "none" (db is None), "ok", or "error" (list_collection_names raises)
test_response(dbstate, has_url, has_name) ==
    LET database == IF dbstate = "none" THEN "Available but not initialized"
                    ELSE IF dbstate = "error"
                    THEN "Connected but Error: " \o Trunc("Database not available", 50)
                    ELSE "Connected & Working"
    IN  [status |-> 200,
         body |-> [backend |-> "Running",
                   database |-> database,
                   database_url |-> IF has_url THEN "Set" ELSE "Not Set",
                   database_name |-> IF has_name THEN "Set" ELSE "Not Set",
                   connection_status |-> IF dbstate = "none" THEN "Not Connected"
                                         ELSE "Connected",
                   collections |-> IF dbstate = "ok" THEN Take(<<"newsitem">>, 10)
                                   ELSE <<>>]]

test_database ==
    \E dbstate \in {"none", "ok", "error"}, has_url \in BOOLEAN, has_name \in BOOLEAN :
        /\ resp' = test_response(dbstate, has_url, has_name)
        /\ req' = [op |-> "test"]
        /\ fault' = None
        /\ UNCHANGED <<store, origin, completed, article, check>>

-----------------------------------------------------------------------------
(* The system: requests in any order against a collection that may already *)
(* hold NewsItem documents (src/schemas.py: source, title and url are      *)
(* required, every other field has a default and may be absent or short).  *)

LegacyDocs ==
    << [source |-> "Wire",
        title |-> "Unconfirmed leak: Lahore metro fares",
        url |-> "https://example.org/a",
        city |-> "Lahore",
        interests |-> <<"politics">>,
        urgency |-> "important",
        language |-> "en",
        bullets |-> <<"Fares may change">>],
       [source |-> "Desk",
        title |-> "Karachi technology park opens its doors to two hundred new startups this week",
        url |-> "https://example.org/b",
        city |-> "Karachi",
        interests |-> <<"tech">>,
        urgency |-> "full",
        language |-> "ur",
        bullets |-> <<"one", "two", "three", "four">>,
        impact |-> "Jobs",
        fact_status |-> "Rumour",
        risk_score |-> RumourRisk],
       [source |-> "Blog",
        title |-> "Lahore club cricket results",
        url |-> "https://example.org/c",
        city |-> "Lahore",
        interests |-> <<"sports">>,
        urgency |-> "important",
        language |-> "en"] >>

RECURSIVE Pick(_, _)
Pick(S, i) ==
    IF i > Len(LegacyDocs) THEN <<>>
    ELSE (IF i \in S THEN <<LegacyDocs[i]>> ELSE <<>>) \o Pick(S, i + 1)

WithIds(ds) == [i \in 1..Len(ds) |-> Merge(ds[i], "_id" :> i)]

InitialStores == {WithIds(Pick(1..n, 1)) : n \in 0..Len(LegacyDocs)}

NoArticle == [title |-> ""]
NoCheck == [fact_status |-> "", risk_score |-> DefaultRisk]

Init ==
    /\ store \in InitialStores
    /\ req = [op |-> "none"]
    /\ fault = None
    /\ resp = [status |-> 0]
    /\ origin = <<>>
    /\ completed = {}
    /\ article = NoArticle
    /\ check = NoCheck

Next ==
    \/ ingest_news
    \/ get_personalized_feed
    \/ morning_digest
    \/ text_to_audio
    \/ root
    \/ test_database

Spec == Init /\ [][Next]_vars

-----------------------------------------------------------------------------
(* The digest alone, for every limit in 1..20, over the stores a run of    *)
(* Spec starts from and those one whole ingest leaves behind.              *)

IngestedStores ==
    {ingest_loop(st, 1, language, None, <<>>).store :
        st \in InitialStores, language \in Languages}

morning_digest_all == digest_request(AllDigestLimits)

InitDigest ==
    /\ store \in InitialStores \cup IngestedStores
    /\ req = [op |-> "none"]
    /\ fault = None
    /\ resp = [status |-> 0]
    /\ origin = <<>>
    /\ completed = {}
    /\ article = NoArticle
    /\ check = NoCheck

SpecDigest == InitDigest /\ [][morning_digest_all]_vars

-----------------------------------------------------------------------------
(* The fact classifier alone, over titles built from the keywords of both  *)
(* rules in mixed case, other words, the empty title and a missing title.  *)

FactWords ==
    {"", "Breaking", "OFFICIAL", "Govt", "Rumour", "LEAK", "unconfirmed", "cricket"}

FactArticles ==
    {[title |-> a \o " " \o b] : a, b \in FactWords}
        \cup {[title |-> sample_articles[i].title] : i \in 1..Len(sample_articles)}
        \cup {[title |-> ""], [source |-> "Wire"]}

classify ==
    /\ check = NoCheck
    /\ check' = ai_fact_check(article)
    /\ UNCHANGED <<store, req, fault, resp, origin, completed, article>>

InitFact ==
    /\ article \in FactArticles
    /\ check = NoCheck
    /\ store = <<>>
    /\ req = [op |-> "none"]
    /\ fault = None
    /\ resp = [status |-> 0]
    /\ origin = <<>>
    /\ completed = {}

SpecFact == InitFact /\ [][classify]_vars

-----------------------------------------------------------------------------
(* Properties *)

IsPrefix(xs, ys) == Len(xs) <= Len(ys) /\ SubSeq(ys, 1, Len(xs)) = xs

IsPslItem(item) == Has(item, "title") /\ StartsWith(item["title"], "PSL updates")

FeedServed == req.op = "feed" /\ resp.status = 200
DigestServed == req.op = "digest" /\ resp.status = 200

\* The stored document a feed item was made from
StoredDoc(item) == CHOOSE d \in Range(store) : Str(d["_id"]) = item["id"]

HoldsLanguage(st, language) ==
    \E i \in 1..Len(st) : Has(st[i], "language") /\ st[i]["language"] = language

\* An ingest step that inserts the whole batch and reports it
InsertsBatch ==
    /\ resp'.status = 200
    /\ Len(store') = Len(store) + 3
    /\ IsPrefix(store, store')
    /\ resp'.body.inserted = 3
    /\ Len(resp'.body.ids) = 3
    /\ \A i \in 1..3 :
        LET d == store'[Len(store) + i]
        IN  /\ resp'.body.ids[i] = Str(d["_id"])
            /\ d["url"] = sample_articles[i].url
            /\ d["language"] = req'.payload.language

\* C1 as stated: every call of ingest, whatever its language and sources, inserts
\* exactly 3 documents and returns inserted = 3 with their 3 identifiers in batch order.
C1_EveryIngestInsertsThree == [][req'.op = "ingest" => InsertsBatch]_vars

\* C1 amended: every call of ingest during which no store operation fails, whatever
\* its language and sources, inserts exactly 3 documents and returns inserted = 3 with
\* their 3 identifiers in batch order.
C1_IngestInsertsThree == [][req'.op = "ingest" /\ fault' = None => InsertsBatch]_vars

C1_Witness ==
    /\ req.op = "ingest" /\ fault = None /\ resp.status = 200
    /\ req.payload.language = "ur" /\ req.payload.sources # <<>>
    /\ Len(store) = 2 * BatchSize

\* C2: every item of a feed response has exactly 3 bullets: the stored bullets when
\* there are 3, padded with empty strings when there are fewer (or none, or no
\* bullets field), cut to the first 3 when there are more.
C2_FeedBulletsExactlyThree ==
    FeedServed =>
        \A i \in 1..Len(resp.body.items) :
            LET item == resp.body.items[i]
                d == StoredDoc(item)
                b == IF Has(d, "bullets") THEN d["bullets"] ELSE <<>>
            IN  /\ Len(item["bullets"]) = 3
                /\ \A j \in 1..3 :
                    item["bullets"][j] = IF j <= Len(b) THEN b[j] ELSE ""

C2_Witness ==
    /\ FeedServed
    /\ \E i \in 1..Len(resp.body.items) :
        /\ ~Has(StoredDoc(resp.body.items[i]), "bullets")
        /\ resp.body.items[i]["bullets"] = <<"", "", "">>
    /\ \E i \in 1..Len(resp.body.items) :
        /\ Has(StoredDoc(resp.body.items[i]), "bullets")
        /\ Len(StoredDoc(resp.body.items[i])["bullets"]) = 1

C2_WitnessCut ==
    /\ FeedServed
    /\ \E i \in 1..Len(resp.body.items) :
        /\ Len(StoredDoc(resp.body.items[i])["bullets"]) > 3
        /\ resp.body.items[i]["bullets"] = <<"one", "two", "three">>

\* C3 as stated, in its narrowest reading (the store serves the request, and the
\* request leaves interests and urgency at their defaults): once an ingest has
\* completed, a feed request with city = "Lahore" returns a "PSL updates" item.
C3_LahoreFeedHasPsl ==
    ( /\ req.op = "feed" /\ fault = None
      /\ req.payload.city = Some("Lahore")
      /\ req.payload.interests = <<>>
      /\ req.payload.urgency = "important"
      /\ completed # {} )
    => /\ resp.status = 200
       /\ \E i \in 1..Len(resp.body.items) : IsPslItem(resp.body.items[i])

\* C3 amended: once an ingest in language L has completed, every feed request the
\* store serves with city = "Lahore", urgency = "important", language = L and
\* interests empty or naming "sports", which at most 50 stored documents match,
\* returns an item in language L whose title begins "PSL updates".
C3_MatchingLahoreFeedHasPsl ==
    ( /\ req.op = "feed" /\ fault = None
      /\ req.payload.city = Some("Lahore")
      /\ req.payload.urgency = "important"
      /\ req.payload.language \in completed
      /\ (req.payload.interests = <<>> \/ "sports" \in Range(req.payload.interests))
      /\ Len(SelectSeq(store, LAMBDA d : Matches(d, feed_query(req.payload)))) <= FeedLimit )
    => /\ resp.status = 200
       /\ \E i \in 1..Len(resp.body.items) :
            /\ IsPslItem(resp.body.items[i])
            /\ resp.body.items[i]["language"] = req.payload.language

C3_Witness ==
    /\ req.op = "feed" /\ fault = None
    /\ req.payload = Feed(Some("Lahore"), <<"sports", "tech">>, "important", "ur")
    /\ completed = {"en", "ur"}
    /\ \E i \in 1..Len(resp.body.items) : IsPslItem(resp.body.items[i])

\* C4: an item of a feed response made from a document ingest inserted carries the
\* title, source and url of the canned article the document was built from; and every
\* item equals its stored document in every field but _id (replaced by the string id)
\* and bullets.
C4_FeedRoundTrip ==
    FeedServed =>
        \A i \in 1..Len(resp.body.items) :
            LET item == resp.body.items[i]
            IN  /\ \E d \in Range(store) : Str(d["_id"]) = item["id"]
                /\ LET d == StoredDoc(item)
                   IN  /\ DOMAIN item = (DOMAIN d \ {"_id"}) \cup {"id", "bullets"}
                       /\ \A k \in DOMAIN d \ {"_id", "bullets"} : item[k] = d[k]
                       /\ d["_id"] \in DOMAIN origin =>
                            LET art == sample_articles[origin[d["_id"]].art]
                            IN  /\ item["title"] = art.title
                                /\ item["source"] = art.source
                                /\ item["url"] = art.url

C4_Witness ==
    /\ FeedServed
    /\ \E i \in 1..Len(resp.body.items) :
        /\ StoredDoc(resp.body.items[i])["_id"] \in DOMAIN origin
        /\ resp.body.items[i]["url"] = "https://www.geo.tv/sample2"
    /\ \E i \in 1..Len(resp.body.items) :
        StoredDoc(resp.body.items[i])["_id"] \notin DOMAIN origin

\* The body of a digest made of the 5 canned fallback items
IsFallbackBody(body) ==
    /\ Len(body.items) = 5
    /\ Len(body.headlines) = 5
    /\ \A i \in 1..5 :
        /\ body.items[i].title = Some(fallback_titles[i])
        /\ body.headlines[i] = Some(fallback_titles[i])
        /\ body.items[i].source = Some("PakGPT")
        /\ body.items[i].fact_status = "Unconfirmed"
        /\ body.items[i].risk_score = 20
        /\ Len(body.items[i].bullets) = 3

\* C5: when the store holds no document of the requested language, digest returns,
\* for every limit in 1..20, the 5 canned fallback items (each "Unconfirmed" with risk
\* score 20) and 5 headlines, and its summary contains the Urdu trailer exactly when
\* the language is "ur".
C5_EmptyDigestFallsBack ==
    (req.op = "digest" /\ ~HoldsLanguage(store, req.language)) =>
        /\ resp.status = 200
        /\ IsFallbackBody(resp.body)
        /\ Contains(resp.body.summary_60s, UrduTrailer) <=> (req.language = "ur")

C5_Witness ==
    /\ req.op = "digest" /\ fault = None
    /\ req.language = "ur" /\ req.limit = 1
    /\ HoldsLanguage(store, "en") /\ ~HoldsLanguage(store, "ur")
    /\ Len(resp.body.items) = 5

\* C6: digest never answers a store failure with an error: when the query fails it
\* returns the 5 canned fallback items; and it returns a fallback item only when the
\* query failed or found no document.
C6_DigestFallbackOnFailureOnly ==
    req.op = "digest" =>
        /\ fault # None => (resp.status = 200 /\ IsFallbackBody(resp.body))
        /\ (fault = None /\ HoldsLanguage(store, req.language)) =>
            /\ resp.status = 200
            /\ \A i \in 1..Len(resp.body.items) :
                /\ resp.body.items[i].source # Some("PakGPT")
                /\ \E d \in Range(store) :
                    /\ Has(d, "language") /\ d["language"] = req.language
                    /\ resp.body.items[i].title = Some(d["title"])

C6_Witness ==
    /\ req.op = "digest" /\ fault # None
    /\ HoldsLanguage(store, req.language)
    /\ origin # <<>>
    /\ IsFallbackBody(resp.body)

C6_WitnessFound ==
    /\ req.op = "digest" /\ fault = None
    /\ HoldsLanguage(store, req.language)
    /\ Len(resp.body.items) = 2

\* C7: the classifier tests the lower-cased title first for "breaking", "official",
\* "gov" (Verified, 5, also when a Rumour keyword is there too), then for "rumour",
\* "leak", "unconfirmed" (Rumour, 65), else answers (Unconfirmed, 30), a missing or
\* empty title included; the risk score is always in 0..100.
C7_FactRulesInOrder ==
    check # NoCheck =>
        LET title == IF Has(article, "title") THEN Lower(article["title"]) ELSE ""
            verified == \/ Contains(title, "breaking")
                        \/ Contains(title, "official")
                        \/ Contains(title, "gov")
            rumour == \/ Contains(title, "rumour")
                      \/ Contains(title, "leak")
                      \/ Contains(title, "unconfirmed")
        IN  /\ verified => check = [fact_status |-> "Verified", risk_score |-> 5]
            /\ (~verified /\ rumour) => check = [fact_status |-> "Rumour", risk_score |-> 65]
            /\ (~verified /\ ~rumour) =>
                    check = [fact_status |-> "Unconfirmed", risk_score |-> 30]
            /\ check.risk_score \in 0..100

C7_Witness ==
    /\ article = [title |-> "LEAK OFFICIAL"]
    /\ check = [fact_status |-> "Verified", risk_score |-> 5]

C7_WitnessMissing ==
    /\ ~Has(article, "title")
    /\ check = [fact_status |-> "Unconfirmed", risk_score |-> 30]

\* C8 as stated: every item a digest response exposes, from stored documents or from
\* the fallback set, has exactly 3 bullets.
C8_DigestBulletsExactlyThree ==
    DigestServed =>
        \A i \in 1..Len(resp.body.items) : Len(resp.body.items[i].bullets) = 3

\* C9: an ingest whose k-th store operation fails persists nothing after it: the
\* k-1 documents before it stay in the store, the request ends with status 500 and
\* a detail holding the store's error text, without count or identifiers.
C9_IngestAbortsAtFailure ==
    [][(req'.op = "ingest" /\ fault' # None) =>
        LET k == fault'[1].at
        IN  /\ resp'.status = 500
            /\ ~Has(resp', "body")
            /\ resp'.detail = "DB error: " \o fault'[1].err
            /\ Contains(resp'.detail, fault'[1].err)
            /\ IsPrefix(store, store')
            /\ Len(store') = Len(store) + k - 1
            /\ \A i \in 1..(k - 1) :
                store'[Len(store) + i]["url"] = sample_articles[i].url]_vars

C9_Witness ==
    /\ req.op = "ingest" /\ fault # None /\ fault[1].at = 3
    /\ resp.status = 500
    /\ Len(store) = Len(LegacyDocs) + 2
    /\ store[Len(store)]["url"] = sample_articles[2].url

\* C10: the collection only grows, and only by ingest: every step keeps the stored
\* documents as they are, in order, and a step that is not an ingest keeps the whole
\* collection.
C10_StoreAppendOnly ==
    [][/\ IsPrefix(store, store')
       /\ req'.op # "ingest" => store' = store]_vars

C10_Witness ==
    /\ FeedServed
    /\ origin # <<>>
    /\ \E i \in 1..Len(resp.body.items) :
        LET d == StoredDoc(resp.body.items[i])
        IN  /\ ~Has(resp.body.items[i], "_id")
            /\ Has(d, "_id")
            /\ ~Has(d, "bullets")

====
